---- MODULE Spec2Model ----
(***************************************************************************)
(* Pallanguzhi: the rules engine (PallanguzhiGame) as a state machine.     *)
(* A game object is a record; every method of the class is an operator on  *)
(* that record, and every public call is an action on the variable `game`. *)
(***************************************************************************)
EXTENDS Integers, Sequences, FiniteSets, TLC

VARIABLES
    game,   \* the PallanguzhiGame instance (all of its fields)
    call,   \* the last call made on it: [op, pitIndex]
    ret,    \* what that call returned
    pre,    \* the fields of `game` when that call started
    sown,   \* the board of that call right after the sowing loop
    line,   \* the start pits of the moves played since the game was set up
    ai,     \* the PallanguzhiAI instance
    ui      \* the PallanguzhiUI instance: its flag, the async calls in flight
            \* and the pending executeAIMove timers

vars == <<game, call, ret, pre, sown, line, ai, ui>>

(***************************************************************************)
(* Program constants                                                       *)
(***************************************************************************)
NumPits == 14
InitialStones == 6
MiddleStones == 12
PlayerMiddle == 3
AiMiddle == 10
TotalStones == 96

(***************************************************************************)
(* Bounds of the exploration                                               *)
(***************************************************************************)
\* pit arguments are drawn from -OutOfRange .. (NumPits - 1) + OutOfRange
OutOfRange == 1
\* successful moves a run may make away from the recorded games below
MaxFree == 1
\* the deepest search that is run
MaxDepth == 2
\* makeMove calls made on a temporary game
MaxTempMoves == 2
\* async calls of the UI in flight
MaxTasks == 2
\* pending executeAIMove timers
MaxTimers == 2

Pits == 0 .. (NumPits - 1)
PitInputs == (0 - OutOfRange) .. (NumPits - 1 + OutOfRange)

\* Recorded games (start pits of the successive moves, from a new game).
\* Runs follow a recorded game and may leave it for MaxFree moves.
Lines ==
    { <<4, 12, 1, 7, 3, 4, 12, 5>>,                         \* the AI wins
      <<6, 9, 2, 11, 6, 13, 12, 6, 13>>,                    \* the player wins
      <<5, 9, 2, 13, 5, 11, 0, 13, 6, 12, 0, 2, 13>>,       \* a tie
      <<6, 10, 7, 6>>,             \* pit 6 played into the empty pit 7
      <<2, 11, 3>>,                \* a pit of 14 stones is played
      <<6, 8, 1, 11, 6>>,          \* a landing with no stone to capture
      <<5, 13, 2, 8, 4, 6, 7, 5, 13>>,     \* the AI takes every stone
      <<5, 7, 3, 9>>,                      \* three moves capture 27 stones each
      <<4, 13, 5, 11, 2, 7, 4, 13>>,       \* one pit is left to the player
      <<5, 10, 13, 2, 7, 6, 13, 4, 7, 10, 6, 13, 2, 9, 3, 10, 12, 5, 7, 6,
        11, 1, 12, 13>> }                  \* the game ends on an empty board

(***************************************************************************)
(* PallanguzhiGame                                                         *)
(***************************************************************************)
\* mutant: only the player's middle pit gets its 12 stones
initializeGame_oneMiddle ==
    [ board          |-> [i \in Pits |->
                            IF i = PlayerMiddle THEN MiddleStones ELSE InitialStones],
      playerScore    |-> 0,
      aiScore        |-> 0,
      currentPlayer  |-> "player",
      gameOver       |-> FALSE,
      winner         |-> "null",
      lastMove       |-> "null",
      capturedStones |-> 0,
      moveHistory    |-> <<>> ]

initializeGame ==
    [ board          |-> [i \in Pits |->
                            IF i = PlayerMiddle \/ i = AiMiddle
                            THEN MiddleStones ELSE InitialStones],
      playerScore    |-> 0,
      aiScore        |-> 0,
      currentPlayer  |-> "player",
      gameOver       |-> FALSE,
      winner         |-> "null",
      lastMove       |-> "null",
      capturedStones |-> 0,
      moveHistory    |-> <<>> ]

\* this.board[i] > 0 : reading outside the array gives undefined, and
\* undefined > 0 is false
hasStones(board, i) == IF i \in DOMAIN board THEN board[i] > 0 ELSE FALSE

\* mutant: the test of gameOver is missing
isValidMove_ignoresEnd(g, pitIndex) ==
    IF g.currentPlayer = "player" /\ (pitIndex < 0 \/ pitIndex > 6) THEN FALSE
    ELSE IF g.currentPlayer = "ai" /\ (pitIndex < 7 \/ pitIndex > 13) THEN FALSE
    ELSE hasStones(g.board, pitIndex)

\* mutant: the player's range check is off by one (pitIndex > 7)
isValidMove_offByOne(g, pitIndex) ==
    IF g.gameOver THEN FALSE
    ELSE IF g.currentPlayer = "player" /\ (pitIndex < 0 \/ pitIndex > 7) THEN FALSE
    ELSE IF g.currentPlayer = "ai" /\ (pitIndex < 7 \/ pitIndex > 13) THEN FALSE
    ELSE hasStones(g.board, pitIndex)

isValidMove(g, pitIndex) ==
    IF g.gameOver THEN FALSE
    ELSE IF g.currentPlayer = "player" /\ (pitIndex < 0 \/ pitIndex > 6) THEN FALSE
    ELSE IF g.currentPlayer = "ai" /\ (pitIndex < 7 \/ pitIndex > 13) THEN FALSE
    ELSE hasStones(g.board, pitIndex)

\* mutant: pit 13 is followed by pit 7 (the sowing stays on the AI side)
getNextPit_noWrap(currentPit) ==
    IF currentPit >= 0 /\ currentPit <= 6
    THEN (IF currentPit = 6 THEN 7 ELSE currentPit + 1)
    ELSE (IF currentPit = 13 THEN 7 ELSE currentPit + 1)

getNextPit(currentPit) ==
    IF currentPit >= 0 /\ currentPit <= 6
    THEN (IF currentPit = 6 THEN 7 ELSE currentPit + 1)
    ELSE (IF currentPit = 13 THEN 0 ELSE currentPit + 1)

isOwnPit(g, pitIndex) ==
    IF g.currentPlayer = "player"
    THEN pitIndex >= 0 /\ pitIndex <= 6
    ELSE pitIndex >= 7 /\ pitIndex <= 13

\* mutant: the wraparound lines are missing (pits 0 and 13 not adjacent)
getAdjacentPits_noWrap(pitIndex) ==
    LET a1 == IF pitIndex > 0 THEN <<pitIndex - 1>> ELSE <<>>
        a2 == IF pitIndex < 13 THEN Append(a1, pitIndex + 1) ELSE a1
    IN  a2

getAdjacentPits(pitIndex) ==
    LET a1 == IF pitIndex > 0 THEN <<pitIndex - 1>> ELSE <<>>
        a2 == IF pitIndex < 13 THEN Append(a1, pitIndex + 1) ELSE a1
        a3 == IF pitIndex = 0 THEN Append(a2, 13) ELSE a2
        a4 == IF pitIndex = 13 THEN Append(a3, 0) ELSE a3
    IN  a4

\* currentPit after `steps` passes of the while loop of makeMove, that is
\* getNextPit applied `steps` times; the passes are split in two halves,
\* the first worked out before the second, to keep the evaluation shallow
RECURSIVE pitAfter(_, _)
pitAfter(currentPit, steps) ==
    IF steps = 0 THEN currentPit
    ELSE IF steps = 1 THEN getNextPit(currentPit)
    ELSE CHOOSE last \in {pitAfter(half, steps - (steps \div 2)) :
                              half \in {pitAfter(currentPit, steps \div 2)}} : TRUE

\* what the loop leaves when its passes went to the pits visited[1], ...:
\* this.board[currentPit]++ and path.push(currentPit) once per pass
sowInto(board, currentPit, path, visited) ==
    [board      |-> [q \in DOMAIN board |->
                        board[q] + Cardinality({i \in DOMAIN visited : visited[i] = q})],
     currentPit |-> IF visited = <<>> THEN currentPit ELSE visited[Len(visited)],
     path       |-> path \o visited]

\* the while loop of makeMove: one stone into each next pit
distribute(board, currentPit, stonesInHand, path) ==
    sowInto(board, currentPit, path,
            [i \in 1..stonesInHand |-> pitAfter(currentPit, i)])

\* the for loop of checkCapture over the adjacent pits, from index k on
RECURSIVE captureAdjacent(_, _, _, _, _)
captureAdjacent(board, adjacentPits, k, totalCaptured, captures) ==
    IF k > Len(adjacentPits)
    THEN [board |-> board, captured |-> totalCaptured, captures |-> captures]
    ELSE LET adjPit == adjacentPits[k]
         IN  IF board[adjPit] > 0
             THEN captureAdjacent([board EXCEPT ![adjPit] = 0], adjacentPits, k + 1,
                                  totalCaptured + board[adjPit],
                                  Append(captures, [pit |-> adjPit, stones |-> board[adjPit]]))
             ELSE captureAdjacent(board, adjacentPits, k + 1, totalCaptured, captures)

\* mutant: the landing stone is counted but not listed among the captures
captureLanding_unlisted(adj, lastPit) ==
    IF adj.captured > 0
    THEN [board    |-> [adj.board EXCEPT ![lastPit] = 0],
          captured |-> adj.captured + adj.board[lastPit],
          captures |-> adj.captures]
    ELSE adj

\* the end of checkCapture: the landing stone goes with the captured ones
captureLanding(adj, lastPit) ==
    IF adj.captured > 0
    THEN [board    |-> [adj.board EXCEPT ![lastPit] = 0],
          captured |-> adj.captured + adj.board[lastPit],
          captures |-> Append(adj.captures, [pit |-> lastPit, stones |-> 1])]
    ELSE adj

\* mutant: the test that the landing pit is the opponent's is missing
checkCapture_anySide(g, lastPit) ==
    IF g.board[lastPit] = 1
    THEN captureLanding(captureAdjacent(g.board, getAdjacentPits(lastPit), 1, 0, <<>>),
                        lastPit)
    ELSE [board |-> g.board, captured |-> 0, captures |-> <<>>]

\* returns the board it leaves behind with the source's {captured, captures}
checkCapture(g, lastPit) ==
    IF ~isOwnPit(g, lastPit) /\ g.board[lastPit] = 1
    THEN captureLanding(captureAdjacent(g.board, getAdjacentPits(lastPit), 1, 0, <<>>),
                        lastPit)
    ELSE [board |-> g.board, captured |-> 0, captures |-> <<>>]

RECURSIVE sumRange(_, _, _)
sumRange(board, from, to) ==
    IF from > to THEN 0 ELSE board[from] + sumRange(board, from + 1, to)

\* mutant: the game ends only when both sides are empty (&& for ||)
checkGameEnd_bothSides(g) ==
    LET playerSideEmpty == \A i \in 0..6 : g.board[i] = 0
        aiSideEmpty == \A i \in 7..13 : g.board[i] = 0
        playerScore == g.playerScore + sumRange(g.board, 0, 6)
        aiScore == g.aiScore + sumRange(g.board, 7, 13)
    IN  IF playerSideEmpty /\ aiSideEmpty
        THEN [g EXCEPT !.gameOver = TRUE,
                       !.playerScore = playerScore,
                       !.aiScore = aiScore,
                       !.winner = IF playerScore > aiScore THEN "player"
                                  ELSE IF aiScore > playerScore THEN "ai"
                                  ELSE "tie"]
        ELSE g

checkGameEnd(g) ==
    LET playerSideEmpty == \A i \in 0..6 : g.board[i] = 0
        aiSideEmpty == \A i \in 7..13 : g.board[i] = 0
        remainingPlayerStones == sumRange(g.board, 0, 6)
        remainingAiStones == sumRange(g.board, 7, 13)
        playerScore == g.playerScore + remainingPlayerStones
        aiScore == g.aiScore + remainingAiStones
    IN  IF playerSideEmpty \/ aiSideEmpty
        THEN [g EXCEPT !.gameOver = TRUE,
                       !.playerScore = playerScore,
                       !.aiScore = aiScore,
                       !.winner = IF playerScore > aiScore THEN "player"
                                  ELSE IF aiScore > playerScore THEN "ai"
                                  ELSE "tie"]
        ELSE g

\* the for loop of getValidMoves, from pit i to pit end
RECURSIVE collectMoves(_, _, _, _)
collectMoves(board, i, end, moves) ==
    IF i <= end
    THEN collectMoves(board, i + 1, end,
                      IF board[i] > 0 THEN Append(moves, i) ELSE moves)
    ELSE moves

\* mutant: the loop stops one pit early (i < end)
getValidMoves_shortLoop(g) ==
    LET start == IF g.currentPlayer = "player" THEN 0 ELSE 7
        end == IF g.currentPlayer = "player" THEN 6 ELSE 13
    IN  collectMoves(g.board, start, end - 1, <<>>)

getValidMoves(g) ==
    LET start == IF g.currentPlayer = "player" THEN 0 ELSE 7
        end == IF g.currentPlayer = "player" THEN 6 ELSE 13
    IN  collectMoves(g.board, start, end, <<>>)

getGameState(g) ==
    [ board         |-> g.board,
      playerScore   |-> g.playerScore,
      aiScore       |-> g.aiScore,
      currentPlayer |-> g.currentPlayer,
      gameOver      |-> g.gameOver,
      winner        |-> g.winner,
      validMoves    |-> getValidMoves(g) ]

otherPlayer(currentPlayer) == IF currentPlayer = "player" THEN "ai" ELSE "player"

\* mutant: only the parity of the landing pit is looked at
isBonusTurn_parityOnly(g, lastPit) ==
    g.board[lastPit] % 2 = 0

\* mutant: a bonus turn whenever the landing pit holds an even number
isBonusTurn_anySide(g, lastPit) ==
    g.board[lastPit] % 2 = 0 /\ g.board[lastPit] > 0

\* the condition of the bonus turn in makeMove
isBonusTurn(g, lastPit) ==
    isOwnPit(g, lastPit) /\ g.board[lastPit] % 2 = 0 /\ g.board[lastPit] > 0

(* makeMove past its validity check, one operator per step; each step    *)
(* hands what the method has computed so far to the next one.  The steps  *)
(* are listed last to first.                                              *)

\* the return statement: the game left behind, the source's return value,
\* and the board as it stood between the sowing loop and checkCapture
makeMove_return(g, moveDetails, captured, sownBoard) ==
    [game   |-> g,
     result |-> [success     |-> TRUE,
                 moveDetails |-> moveDetails,
                 captured    |-> captured,
                 bonusTurn   |-> moveDetails.bonusTurn,
                 gameOver    |-> g.gameOver,
                 winner      |-> g.winner],
     sown   |-> sownBoard]

\* this.moveHistory.push(...)
recordMove(g, moveDetails) ==
    [g EXCEPT !.moveHistory =
        Append(@, [player     |-> otherPlayer(g.currentPlayer),
                   move       |-> moveDetails,
                   boardState |-> g.board,
                   scores     |-> [player |-> g.playerScore, ai |-> g.aiScore]])]

\* history entry, then checkGameEnd, then return
makeMove_record(g, moveDetails, captured, sownBoard) ==
    makeMove_return(checkGameEnd(recordMove(g, moveDetails)),
                    moveDetails, captured, sownBoard)

\* bonus turn or switch of players; moveDetails is complete here
makeMove_turn(g, pitIndex, d, captureResult, bonus) ==
    makeMove_record(IF bonus THEN g
                    ELSE [g EXCEPT !.currentPlayer = otherPlayer(@)],
                    [startPit  |-> pitIndex,
                     path      |-> d.path,
                     captures  |-> IF captureResult.captured > 0
                                   THEN captureResult.captures ELSE <<>>,
                     bonusTurn |-> bonus],
                    captureResult.captured, d.board)

\* mutant: the captured stones go to the score of the other side
updateScores_toOpponent(g, captureResult) ==
    IF captureResult.captured > 0
    THEN IF g.currentPlayer = "player"
         THEN [g EXCEPT !.board = captureResult.board,
                        !.aiScore = @ + captureResult.captured]
         ELSE [g EXCEPT !.board = captureResult.board,
                        !.playerScore = @ + captureResult.captured]
    ELSE [g EXCEPT !.board = captureResult.board]

\* the captured stones go to the score of the side that moved
updateScores(g, captureResult) ==
    IF captureResult.captured > 0
    THEN IF g.currentPlayer = "player"
         THEN [g EXCEPT !.board = captureResult.board,
                        !.playerScore = @ + captureResult.captured]
         ELSE [g EXCEPT !.board = captureResult.board,
                        !.aiScore = @ + captureResult.captured]
    ELSE [g EXCEPT !.board = captureResult.board]

makeMove_score(g, pitIndex, d, captureResult) ==
    makeMove_turn(g, pitIndex, d, captureResult, isBonusTurn(g, d.currentPit))

\* d is what the sowing loop left: board, currentPit (= lastPit) and path
makeMove_capture(g, pitIndex, d, captureResult) ==
    makeMove_score(updateScores(g, captureResult), pitIndex, d, captureResult)

makeMove_sown(g, pitIndex, d) ==
    makeMove_capture(g, pitIndex, d,
                     checkCapture([g EXCEPT !.board = d.board], d.currentPit))

makeValidMove(g, pitIndex) ==
    makeMove_sown(g, pitIndex,
                  distribute([g.board EXCEPT ![pitIndex] = 0], pitIndex,
                             g.board[pitIndex], <<pitIndex>>))

invalidMove(g) ==
    [game |-> g,
     result |-> [success |-> FALSE, message |-> "Invalid move"],
     sown |-> g.board]

\* mutant: only the stones of the pit are checked, not whose turn it is
makeMove_anyPit(g, pitIndex) ==
    IF ~hasStones(g.board, pitIndex)
    THEN invalidMove(g)
    ELSE makeValidMove(g, pitIndex)

makeMove(g, pitIndex) ==
    IF ~isValidMove(g, pitIndex)
    THEN invalidMove(g)
    ELSE makeValidMove(g, pitIndex)

(***************************************************************************)
(* simulateMove: the move is made on the object itself and six fields are  *)
(* put back afterwards.  The operator returns the snapshot (the method's   *)
(* return value) and the object as the method leaves it.                   *)
(***************************************************************************)
\* the object literal built after the move
simulatedState(g, result) ==
    [ board         |-> g.board,
      playerScore   |-> g.playerScore,
      aiScore       |-> g.aiScore,
      currentPlayer |-> g.currentPlayer,
      gameOver      |-> g.gameOver,
      winner        |-> g.winner,
      moveResult    |-> result ]

\* mutant: gameOver and winner are not put back
restoreState_keepsEnd(g, original) ==
    [g EXCEPT !.board = original.board,
              !.playerScore = original.playerScore,
              !.aiScore = original.aiScore,
              !.currentPlayer = original.currentPlayer]

\* the six assignments from the saved values
restoreState(g, original) ==
    [g EXCEPT !.board = original.board,
              !.playerScore = original.playerScore,
              !.aiScore = original.aiScore,
              !.currentPlayer = original.currentPlayer,
              !.gameOver = original.gameOver,
              !.winner = original.winner]

\* r is what makeMove returned and left behind
simulateMove_restore(original, r) ==
    [state |-> simulatedState(r.game, r.result),
     game  |-> restoreState(r.game, original)]

simulateMove(g, pitIndex) == simulateMove_restore(g, makeMove(g, pitIndex))

(***************************************************************************)
(* PallanguzhiAI                                                           *)
(***************************************************************************)
\* stands for -Infinity / Infinity: larger than any score of a position
Infinity == 1000000
\* stands for move: null in the objects the engine returns
null == 0 - 99

Max(a, b) == IF a > b THEN a ELSE b
Min(a, b) == IF a < b THEN a ELSE b

\* mutant: an unknown difficulty gets the depth of 'easy'
getMaxDepth_defaultEasy(difficulty) ==
    CASE difficulty = "easy" -> 2
      [] difficulty = "medium" -> 4
      [] difficulty = "hard" -> 6
      [] OTHER -> 2

getMaxDepth(difficulty) ==
    CASE difficulty = "easy" -> 2
      [] difficulty = "medium" -> 4
      [] difficulty = "hard" -> 6
      [] OTHER -> 4

\* the constructor; lastExplanation = '' is the explanation with no text
\* (an explanation is modelled by a record, see generateMoveExplanation)
PallanguzhiAI(difficulty) ==
    [ difficulty      |-> difficulty,
      maxDepth        |-> getMaxDepth(difficulty),
      lastExplanation |-> [kind |-> ""] ]

setDifficulty(a, difficulty) ==
    [a EXCEPT !.difficulty = difficulty, !.maxDepth = getMaxDepth(difficulty)]

\* new PallanguzhiGame() followed by Object.assign(tempGame, simulatedState)
tempGame(state) ==
    [ board          |-> state.board,
      playerScore    |-> state.playerScore,
      aiScore        |-> state.aiScore,
      currentPlayer  |-> state.currentPlayer,
      gameOver       |-> state.gameOver,
      winner         |-> state.winner,
      lastMove       |-> initializeGame.lastMove,
      capturedStones |-> initializeGame.capturedStones,
      moveHistory    |-> initializeGame.moveHistory,
      moveResult     |-> state.moveResult ]

\* moveResult.captured > 0 : a refused move has no captured field, and
\* undefined > 0 is false
capturedBy(moveResult) == IF moveResult.success THEN moveResult.captured ELSE 0
bonusBy(moveResult) == IF moveResult.success THEN moveResult.bonusTurn ELSE FALSE

RECURSIVE countEmpty(_, _, _)
countEmpty(board, i, end) ==
    IF i > end THEN 0
    ELSE (IF board[i] = 0 THEN 1 ELSE 0) + countEmpty(board, i + 1, end)

\* mutant: the empty pits of the player's side are not counted
evaluateStrategicPositions_noBonus(g) ==
    g.board[10] * 2 - g.board[3] * 2
    + (g.board[7] + g.board[13]) - (g.board[0] + g.board[6])
    - 3 * countEmpty(g.board, 7, 13)

evaluateStrategicPositions(g) ==
    g.board[10] * 2 - g.board[3] * 2
    + (g.board[7] + g.board[13]) - (g.board[0] + g.board[6])
    - 3 * countEmpty(g.board, 7, 13) + 3 * countEmpty(g.board, 0, 6)

\* the loop of evaluateCaptureOpportunities from the k-th valid move on; the
\* loop state s holds validMoves, the score and the game object, on which
\* every simulateMove is made
captureScored(s, sim) ==
    [s EXCEPT !.score = @ + (IF capturedBy(sim.state.moveResult) > 0
                             THEN capturedBy(sim.state.moveResult) * 15
                             ELSE 0),
              !.game = sim.game]

RECURSIVE captureOpportunities(_, _)
captureOpportunities(s, k) ==
    IF k > Len(s.validMoves)
    THEN s
    ELSE captureOpportunities(captureScored(s, simulateMove(s.game, s.validMoves[k])),
                              k + 1)

evaluateCaptureOpportunities(g) ==
    captureOpportunities([validMoves |-> getValidMoves(g), score |-> 0, game |-> g], 1)

\* the mobility term: currentPlayer is set to 'ai', then to 'player', then
\* back to what it was
mobility(g) ==
    Len(getValidMoves([g EXCEPT !.currentPlayer = "ai"]))
    - Len(getValidMoves([g EXCEPT !.currentPlayer = "player"]))

\* the sum of the five terms; capture is the result of the last one
evaluatePosition_sum(g, capture) ==
    [score |-> (g.aiScore - g.playerScore) * 10
               + (sumRange(g.board, 7, 13) - sumRange(g.board, 0, 6)) * 2
               + mobility(g) * 5
               + evaluateStrategicPositions(g)
               + capture.score,
     game  |-> capture.game]

\* returns the score with the game object as the call leaves it
evaluatePosition(g) ==
    IF g.gameOver
    THEN [score |-> IF g.winner = "ai" THEN 1000
                    ELSE IF g.winner = "player" THEN 0 - 1000
                    ELSE 0,
          game  |-> g]
    ELSE evaluatePosition_sum(g, evaluateCaptureOpportunities(g))

(* minimax.  The loop state s holds the game object, maxScore/minScore    *)
(* (best), bestMove, alpha and beta, whether the loop has hit its break,   *)
(* and the log of the recursive calls made so far: for each call the role  *)
(* and side to move of the node and of its parent.                         *)
searchStart(g, isMaximizing, alpha, beta) ==
    [ game     |-> g,
      best     |-> IF isMaximizing THEN 0 - Infinity ELSE Infinity,
      bestMove |-> null,
      alpha    |-> alpha,
      beta     |-> beta,
      broke    |-> FALSE,
      calls    |-> {},
      cut      |-> FALSE ]

\* the entry of the log for the call on tempGame t made from a node of g
searchCall(g, isMaximizing, t, depth) ==
    [ parentToMove       |-> g.currentPlayer,
      parentIsMaximizing |-> isMaximizing,
      toMove             |-> t.currentPlayer,
      isMaximizing       |-> ~isMaximizing,
      gameOver           |-> t.gameOver,
      depth              |-> depth ]

\* mutant: a later move with an equal score replaces the earlier one
searchUpdate_lastWins(isMaximizing, s, move, result) ==
    IF isMaximizing
    THEN [s EXCEPT !.best     = IF result.score >= s.best THEN result.score ELSE @,
                   !.bestMove = IF result.score >= s.best THEN move ELSE @,
                   !.alpha    = Max(@, result.score),
                   !.calls    = @ \cup result.calls,
                   !.cut      = @ \/ result.cut]
    ELSE [s EXCEPT !.best     = IF result.score <= s.best THEN result.score ELSE @,
                   !.bestMove = IF result.score <= s.best THEN move ELSE @,
                   !.beta     = Min(@, result.score),
                   !.calls    = @ \cup result.calls,
                   !.cut      = @ \/ result.cut]

\* the body of the loop after the recursive call has returned result
searchUpdate(isMaximizing, s, move, result) ==
    IF isMaximizing
    THEN [s EXCEPT !.best     = IF result.score > s.best THEN result.score ELSE @,
                   !.bestMove = IF result.score > s.best THEN move ELSE @,
                   !.alpha    = Max(@, result.score),
                   !.calls    = @ \cup result.calls,
                   !.cut      = @ \/ result.cut]
    ELSE [s EXCEPT !.best     = IF result.score < s.best THEN result.score ELSE @,
                   !.bestMove = IF result.score < s.best THEN move ELSE @,
                   !.beta     = Min(@, result.score),
                   !.calls    = @ \cup result.calls,
                   !.cut      = @ \/ result.cut]

\* mutant: the comparison of the break is turned round
pruned_reversed(alpha, beta) == alpha <= beta

\* the condition of the break
pruned(alpha, beta) == beta <= alpha

searchBreak(s) == [s EXCEPT !.broke = pruned(s.alpha, s.beta)]

RECURSIVE minimax(_, _, _, _, _)

\* the recursive call on the temporary game t, always in the other role;
\* g is the game object after its simulateMove
searchChild(s, g, move, depth, isMaximizing, t) ==
    searchBreak(searchUpdate(isMaximizing,
                             [s EXCEPT !.game = g,
                                       !.calls = @ \cup
                                          {searchCall(g, isMaximizing, t, depth - 1)}],
                             move,
                             minimax(t, depth - 1, ~isMaximizing, s.alpha, s.beta)))

\* sim is what game.simulateMove(move) returned and left behind
searchSimulated(s, move, depth, isMaximizing, sim) ==
    searchChild(s, sim.game, move, depth, isMaximizing, tempGame(sim.state))

\* one pass of the for loop
searchMove(s, move, depth, isMaximizing) ==
    searchSimulated(s, move, depth, isMaximizing, simulateMove(s.game, move))

\* the for loop over validMoves, from the k-th move on; cut records that a
\* break left moves unsearched
RECURSIVE searchMoves(_, _, _, _, _)
searchMoves(s, validMoves, k, depth, isMaximizing) ==
    IF k > Len(validMoves)
    THEN s
    ELSE IF s.broke
    THEN [s EXCEPT !.cut = TRUE]
    ELSE searchMoves(searchMove(s, validMoves[k], depth, isMaximizing),
                     validMoves, k + 1, depth, isMaximizing)

searchReturn(s) ==
    [score |-> s.best, move |-> s.bestMove, game |-> s.game, calls |-> s.calls,
     cut |-> s.cut]

\* the base case: evaluatePosition(game)
searchLeaf(e) ==
    [score |-> e.score, move |-> null, game |-> e.game, calls |-> {}, cut |-> FALSE]

\* returns the source's {score, move} with the game object as the call
\* leaves it and the log of the recursive calls
minimax(g, depth, isMaximizing, alpha, beta) ==
    IF depth = 0 \/ g.gameOver
    THEN searchLeaf(evaluatePosition(g))
    ELSE searchReturn(searchMoves(searchStart(g, isMaximizing, alpha, beta),
                                  getValidMoves(g), 1, depth, isMaximizing))

(* The explanations are strings put together from fixed phrases; a string  *)
(* is modelled by the record of the parts that decide its text.            *)
\* mutant: the corner pits are looked at before the score difference
getStrategicReason_cornerFirst(g, move, state) ==
    IF move = 7 \/ move = 13
    THEN "Corner pit moves can create capture opportunities. "
    ELSE IF state.aiScore - state.playerScore > (g.aiScore - g.playerScore) + 5
    THEN "This move significantly improves AI's position. "
    ELSE IF move = 10
    THEN "Playing from the middle pit provides maximum distribution options. "
    ELSE IF sumRange(state.board, 7, 13) > sumRange(state.board, 0, 6) + 10
    THEN "This maintains AI's stone advantage on the board. "
    ELSE "This move maintains good strategic position. "

getStrategicReason(g, move, state) ==
    IF state.aiScore - state.playerScore > (g.aiScore - g.playerScore) + 5
    THEN "This move significantly improves AI's position. "
    ELSE IF move = 10
    THEN "Playing from the middle pit provides maximum distribution options. "
    ELSE IF move = 7 \/ move = 13
    THEN "Corner pit moves can create capture opportunities. "
    ELSE IF sumRange(state.board, 7, 13) > sumRange(state.board, 0, 6) + 10
    THEN "This maintains AI's stone advantage on the board. "
    ELSE "This move maintains good strategic position. "

\* sim is what game.simulateMove(move) returned and left behind
moveExplanation(a, move, sim) ==
    [explanation |->
        [ kind        |-> "AI chose pit",
          pitNumber   |-> IF move = null THEN 0 - 6 ELSE move - 6,
          stones      |-> IF move \in DOMAIN sim.game.board
                          THEN sim.game.board[move] ELSE null,
          captured    |-> Max(capturedBy(sim.state.moveResult), 0),
          captureRule |-> capturedBy(sim.state.moveResult) > 0
                          /\ a.difficulty = "hard",
          bonusTurn   |-> bonusBy(sim.state.moveResult),
          reason      |-> IF a.difficulty = "medium" \/ a.difficulty = "hard"
                          THEN getStrategicReason(sim.game, move, sim.state)
                          ELSE "" ],
     game |-> sim.game]

generateMoveExplanation(a, g, move) == moveExplanation(a, move, simulateMove(g, move))

\* the end of chooseBestMove: e is what generateMoveExplanation returned
chooseBestMove_return(a, move, e) ==
    [value |-> [move |-> move, explanation |-> e.explanation],
     ai    |-> [a EXCEPT !.lastExplanation = e.explanation],
     game  |-> e.game]

\* bestMove is what minimax returned and left behind
chooseBestMove_explain(a, bestMove) ==
    chooseBestMove_return(a, bestMove.move,
                          generateMoveExplanation(a, bestMove.game, bestMove.move))

chooseBestMove_one(a, g, validMoves) ==
    chooseBestMove_return(a, validMoves[1],
                          [explanation |-> [kind      |-> "Only one move available",
                                            pitNumber |-> validMoves[1] + 1],
                           game |-> g])

\* mutant: a single valid move is searched like any other
chooseBestMove_alwaysSearch(a, g) ==
    IF Len(getValidMoves(g)) = 0
    THEN [value |-> [move |-> null,
                     explanation |-> [kind |-> "No valid moves available."]],
          ai    |-> a,
          game  |-> g]
    ELSE chooseBestMove_explain(a, minimax(g, a.maxDepth, TRUE, 0 - Infinity, Infinity))

\* returns the source's {move, explanation} with the AI object and the game
\* object as the call leaves them
chooseBestMove(a, g) ==
    IF Len(getValidMoves(g)) = 0
    THEN [value |-> [move |-> null,
                     explanation |-> [kind |-> "No valid moves available."]],
          ai    |-> a,
          game  |-> g]
    ELSE IF Len(getValidMoves(g)) = 1
    THEN chooseBestMove_one(a, g, getValidMoves(g))
    ELSE chooseBestMove_explain(a, minimax(g, a.maxDepth, TRUE, 0 - Infinity, Infinity))

\* sim is what game.simulateMove(move) returned and left behind
playerHint(move, sim) ==
    [explanation |->
        [ kind      |-> "Consider playing pit",
          pitNumber |-> move + 1,
          captured  |-> Max(capturedBy(sim.state.moveResult), 0),
          bonusTurn |-> bonusBy(sim.state.moveResult),
          position  |-> /\ sim.state.moveResult.success
                        /\ sim.state.moveResult.captured = 0
                        /\ ~sim.state.moveResult.bonusTurn ],
     game |-> sim.game]

generatePlayerHint(g, move) ==
    IF move = null
    THEN [explanation |-> [kind |-> "No valid moves available."], game |-> g]
    ELSE playerHint(move, simulateMove(g, move))

\* the loop of suggestPlayerMove from the k-th valid move on; the loop
\* state s holds validMoves, bestMove, bestScore and the game object
suggestScored(s, move, sim, score) ==
    [s EXCEPT !.move  = IF score > s.score THEN move ELSE @,
              !.score = IF score > s.score THEN score ELSE @,
              !.game  = sim.game]

suggestSimulated(s, move, sim) ==
    suggestScored(s, move, sim, 0 - evaluatePosition(tempGame(sim.state)).score)

RECURSIVE suggestMoves(_, _)
suggestMoves(s, k) ==
    IF k > Len(s.validMoves)
    THEN s
    ELSE suggestMoves(suggestSimulated(s, s.validMoves[k],
                                       simulateMove(s.game, s.validMoves[k])),
                      k + 1)

\* best is what the loop returned and left behind
suggestPlayerMove_hint(best, h) ==
    [value |-> [move |-> best.move, explanation |-> h.explanation],
     game  |-> h.game]

suggestPlayerMove_best(best) ==
    suggestPlayerMove_hint(best, generatePlayerHint(best.game, best.move))

\* returns the source's {move, explanation} with the game object as the
\* call leaves it
suggestPlayerMove(g) ==
    IF g.currentPlayer # "player"
    THEN [value |-> [move |-> null,
                     explanation |-> [kind |-> "It is not the player's turn."]],
          game  |-> g]
    ELSE suggestPlayerMove_best(suggestMoves([validMoves |-> getValidMoves(g),
                                              move       |-> null,
                                              score      |-> 0 - Infinity,
                                              game       |-> g], 1))

(***************************************************************************)
(* PallanguzhiUI: the keyboard handler.  A handler works on u, the game    *)
(* object together with the moves played on it since it was set up.        *)
(***************************************************************************)
\* the constructor: no move is animated, no async call has started and no
\* timer is set
PallanguzhiUI ==
    [animationInProgress |-> FALSE, tasks |-> <<>>, timers |-> 0]

Keys == {"1", "2", "3", "4", "5", "6", "7", "h", "H", "n", "N", "e", "x"}

\* parseInt(e.key) - 1 for the keys 1 to 7, null for the other keys
keyPit(key) ==
    CASE key = "1" -> 0 [] key = "2" -> 1 [] key = "3" -> 2 [] key = "4" -> 3
      [] key = "5" -> 4 [] key = "6" -> 5 [] key = "7" -> 6 [] OTHER -> null

\* e.key.toLowerCase()
toLowerCase(key) ==
    CASE key = "H" -> "h" [] key = "N" -> "n" [] OTHER -> key

startNewGame(u) == [game |-> initializeGame, line |-> <<>>]

\* showHint: the hint is worked out on the game object
showHint(u) ==
    IF u.game.currentPlayer # "player" \/ u.game.gameOver
    THEN u
    ELSE [u EXCEPT !.game = suggestPlayerMove(u.game).game]

\* executePlayerMove up to its first await
executePlayerMove_made(u, pitIndex, r) ==
    [game |-> r.game,
     line |-> IF r.result.success THEN Append(u.line, pitIndex) ELSE u.line]

executePlayerMove(u, pitIndex) ==
    executePlayerMove_made(u, pitIndex, makeMove(u.game, pitIndex))

\* the number keys
handleKeyPress_pit(u, key) ==
    IF keyPit(key) # null /\ isValidMove(u.game, keyPit(key))
    THEN executePlayerMove(u, keyPit(key))
    ELSE u

\* the switch on the other shortcuts
handleKeyPress_shortcut(u, key) ==
    CASE toLowerCase(key) = "h" -> showHint(u)
      [] toLowerCase(key) = "n" -> startNewGame(u)
      [] OTHER -> u

handleKeyPress(u, key, animationInProgress) ==
    IF u.game.currentPlayer # "player" \/ animationInProgress
    THEN u
    ELSE handleKeyPress_shortcut(handleKeyPress_pit(u, key), key)

(***************************************************************************)
(* PallanguzhiUI: the async methods.  An async method runs to its first    *)
(* await inside the handler that called it and goes on, in a later turn of *)
(* the event loop, when the awaited delay is over.  A handler works on w,  *)
(* the objects the UI holds: game, line, ai, the UI's own fields ui and    *)
(* move, the pit the handler has applied with makeMove (null if none).     *)
(* ui.tasks lists the async calls that are between their start and their   *)
(* end, each with the place it waits at and the moveResult it holds.       *)
(***************************************************************************)
removeTask(tasks, k) == SubSeq(tasks, 1, k - 1) \o SubSeq(tasks, k + 1, Len(tasks))

\* setTimeout(() => this.executeAIMove(), ...)
setTimeout(w) == [w EXCEPT !.ui.timers = @ + 1]

\* executePlayerMove from its call to the await of animateMove; u is what
\* the synchronous part left (the handlers call it for valid moves only)
executePlayerMove_await(w, u) ==
    IF Len(u.line) > Len(w.line)
    THEN [w EXCEPT !.game = u.game,
                   !.line = u.line,
                   !.move = u.line[Len(u.line)],
                   !.ui.animationInProgress = TRUE,
                   !.ui.tasks = Append(@,
                       [fn        |-> "executePlayerMove",
                        at        |-> "animateMove",
                        gameOver  |-> u.game.gameOver,
                        bonusTurn |-> u.game.moveHistory[Len(u.game.moveHistory)]
                                          .move.bonusTurn])]
    ELSE [w EXCEPT !.game = u.game, !.line = u.line]

\* executePlayerMove after its awaits, for the call ui.tasks[k]
executePlayerMove_end(w, k) ==
    IF ~w.ui.tasks[k].gameOver /\ w.game.currentPlayer = "ai"
    THEN setTimeout([w EXCEPT !.ui.tasks = removeTask(@, k),
                              !.ui.animationInProgress = FALSE])
    ELSE [w EXCEPT !.ui.tasks = removeTask(@, k),
                   !.ui.animationInProgress = FALSE]

\* mutant: the click handler does not look at animationInProgress
handlePlayerMove_noFlag(w, pitIndex) ==
    IF w.game.gameOver \/ w.game.currentPlayer # "player"
    THEN w
    ELSE IF isValidMove(w.game, pitIndex)
    THEN executePlayerMove_await(w, executePlayerMove([game |-> w.game, line |-> w.line],
                                                      pitIndex))
    ELSE w

\* the click on a player pit
handlePlayerMove(w, pitIndex) ==
    IF w.ui.animationInProgress \/ w.game.gameOver \/ w.game.currentPlayer # "player"
    THEN w
    ELSE IF isValidMove(w.game, pitIndex)
    THEN executePlayerMove_await(w, executePlayerMove([game |-> w.game, line |-> w.line],
                                                      pitIndex))
    ELSE w

\* the keydown listener: handleKeyPress, with the async call it may start
keydown(w, key) ==
    executePlayerMove_await(w, handleKeyPress([game |-> w.game, line |-> w.line],
                                              key, w.ui.animationInProgress))

\* the click on New Game
newGameClick(w) ==
    [w EXCEPT !.game = startNewGame([game |-> w.game, line |-> w.line]).game,
              !.line = startNewGame([game |-> w.game, line |-> w.line]).line]

\* the change of the difficulty select
difficultyChange(w, difficulty) == [w EXCEPT !.ai = setDifficulty(@, difficulty)]

\* executeAIMove from the timer's call to the await of the thinking delay
executeAIMove_start(w) ==
    IF w.game.gameOver \/ w.game.currentPlayer # "ai"
    THEN [w EXCEPT !.ui.timers = @ - 1]
    ELSE [w EXCEPT !.ui.timers = @ - 1,
                   !.ui.animationInProgress = TRUE,
                   !.ui.tasks = Append(@, [fn        |-> "executeAIMove",
                                           at        |-> "delay",
                                           gameOver  |-> FALSE,
                                           bonusTurn |-> FALSE])]

\* the end of executeAIMove when no move was applied
executeAIMove_return(w, k) ==
    [w EXCEPT !.ui.tasks = removeTask(@, k), !.ui.animationInProgress = FALSE]

\* m is what this.game.makeMove(aiChoice.move) returned and left behind
executeAIMove_moved(w, k, move, m) ==
    IF m.result.success
    THEN [w EXCEPT !.game = m.game,
                   !.line = Append(@, move),
                   !.move = move,
                   !.ui.tasks[k] = [fn        |-> "executeAIMove",
                                    at        |-> "animateMove",
                                    gameOver  |-> m.result.gameOver,
                                    bonusTurn |-> m.result.bonusTurn]]
    ELSE executeAIMove_return([w EXCEPT !.game = m.game], k)

\* c is what this.ai.chooseBestMove(this.game) returned and left behind
executeAIMove_chosen(w, k, c) ==
    IF c.value.move # null
    THEN executeAIMove_moved([w EXCEPT !.game = c.game, !.ai = c.ai], k,
                             c.value.move, makeMove(c.game, c.value.move))
    ELSE executeAIMove_return([w EXCEPT !.game = c.game, !.ai = c.ai], k)

\* executeAIMove from the end of the thinking delay to the await of
\* animateMove, or to its end
executeAIMove_think(w, k) == executeAIMove_chosen(w, k, chooseBestMove(w.ai, w.game))

\* executeAIMove after the awaits of the animation
executeAIMove_end(w, k) ==
    IF ~w.ui.tasks[k].gameOver /\ w.ui.tasks[k].bonusTurn
    THEN setTimeout(executeAIMove_return(w, k))
    ELSE executeAIMove_return(w, k)

\* the awaited delay of the call ui.tasks[k] is over
resume(w, k) ==
    IF w.ui.tasks[k].fn = "executePlayerMove" THEN executePlayerMove_end(w, k)
    ELSE IF w.ui.tasks[k].at = "delay" THEN executeAIMove_think(w, k)
    ELSE executeAIMove_end(w, k)

(***************************************************************************)
(* Arrays as objects.  The board of a game object is a reference to an     *)
(* array; the heap is the sequence of the arrays made so far and a         *)
(* reference is an index into it.  makeMove writes the elements of         *)
(* this.board in place; simulateMove assigns this.board.                   *)
(***************************************************************************)
\* mutant: the spread hands back the array itself
spread_alias(heap, ref) == [heap |-> heap, ref |-> ref]

\* [...array]
spread(heap, ref) == [heap |-> Append(heap, heap[ref]), ref |-> Len(heap) + 1]

\* the game object o with its board read through the reference
deref(heap, o) == [o EXCEPT !.board = heap[o.board]]

\* o.makeMove(pitIndex): r is what makeMove gives on the object read
makeMoveIn_written(heap, o, r) ==
    [heap   |-> [heap EXCEPT ![o.board] = r.game.board],
     obj    |-> [r.game EXCEPT !.board = o.board],
     result |-> r.result]

makeMoveIn(heap, o, pitIndex) ==
    makeMoveIn_written(heap, o, makeMove(deref(heap, o), pitIndex))

\* o.simulateMove(pitIndex) in its steps: originalBoard is saved, the move
\* m is made, the board of simulatedState is copied, the state is restored
simulateMoveIn_restore(o, originalBoard, m, simulatedBoard) ==
    [heap  |-> simulatedBoard.heap,
     state |-> simulatedState([m.obj EXCEPT !.board = simulatedBoard.ref], m.result),
     obj   |-> restoreState(m.obj, [o EXCEPT !.board = originalBoard.ref])]

simulateMoveIn_moved(o, originalBoard, m) ==
    simulateMoveIn_restore(o, originalBoard, m, spread(m.heap, m.obj.board))

simulateMoveIn_saved(o, pitIndex, originalBoard) ==
    simulateMoveIn_moved(o, originalBoard, makeMoveIn(originalBoard.heap, o, pitIndex))

simulateMoveIn(heap, o, pitIndex) ==
    simulateMoveIn_saved(o, pitIndex, spread(heap, o.board))

\* game.simulateMove(move); new PallanguzhiGame(); Object.assign(tempGame,
\* simulatedState): the game and the temporary game as objects on one heap
\* (the array made by the constructor of tempGame is dropped by the assign)
forked(sim) ==
    [heap |-> sim.heap, game |-> sim.obj, temp |-> tempGame(sim.state)]

fork(g, move) ==
    forked(simulateMoveIn(<<g.board>>, [g EXCEPT !.board = 1], move))

\* tempGame.makeMove(pitIndex) on the objects f
forkMoved(f, m) == [f EXCEPT !.heap = m.heap, !.temp = m.obj]

forkMove(f, pitIndex) == forkMoved(f, makeMoveIn(f.heap, f.temp, pitIndex))

(***************************************************************************)
(* The exploration bound: how far a run has left the recorded games        *)
(***************************************************************************)
commonPrefix(s, t) ==
    LET n == IF Len(s) < Len(t) THEN Len(s) ELSE Len(t)
        same == {k \in 0..n : \A i \in 1..k : s[i] = t[i]}
    IN  CHOOSE k \in same : \A j \in same : j <= k

offBook(s) ==
    LET m == CHOOSE k \in {commonPrefix(s, l) : l \in Lines} :
                 \A l \in Lines : commonPrefix(s, l) <= k
    IN  Len(s) - m

(***************************************************************************)
(* Actions: one per public call                                            *)
(***************************************************************************)
Init ==
    /\ game = initializeGame
    /\ call = [op |-> "constructor", pitIndex |-> 0]
    /\ ret = [value |-> "undefined"]
    /\ pre = initializeGame
    /\ sown = initializeGame.board
    /\ line = <<>>
    /\ ai = PallanguzhiAI("medium")
    /\ ui = PallanguzhiUI

InitializeGame ==
    /\ game' = initializeGame
    /\ call' = [op |-> "initializeGame", pitIndex |-> 0]
    /\ ret' = [value |-> "undefined"]
    /\ pre' = game
    /\ sown' = initializeGame.board
    /\ line' = <<>>
    /\ UNCHANGED <<ai, ui>>

MakeMove(pitIndex) ==
    \E r \in {makeMove(game, pitIndex)} :
        /\ r.result.success => offBook(Append(line, pitIndex)) <= MaxFree
        /\ game' = r.game
        /\ call' = [op |-> "makeMove", pitIndex |-> pitIndex]
        /\ ret' = r.result
        /\ pre' = game
        /\ sown' = r.sown
        /\ line' = IF r.result.success THEN Append(line, pitIndex) ELSE line
        /\ UNCHANGED <<ai, ui>>

IsValidMove(pitIndex) ==
    /\ call' = [op |-> "isValidMove", pitIndex |-> pitIndex]
    /\ ret' = [value |-> isValidMove(game, pitIndex)]
    /\ pre' = game
    /\ sown' = game.board
    /\ UNCHANGED <<game, line, ai, ui>>

GetValidMoves ==
    /\ call' = [op |-> "getValidMoves", pitIndex |-> 0]
    /\ ret' = [value |-> getValidMoves(game)]
    /\ pre' = game
    /\ sown' = game.board
    /\ UNCHANGED <<game, line, ai, ui>>

Next ==
    \/ InitializeGame
    \/ \E pitIndex \in PitInputs : MakeMove(pitIndex)
    \/ \E pitIndex \in PitInputs : IsValidMove(pitIndex)
    \/ GetValidMoves

Spec == Init /\ [][Next]_vars

(***************************************************************************)
(* The game together with the decision engine: moves of the recorded       *)
(* games, and the calls that simulate or search on the game object.  These *)
(* calls are made on a game whose history holds the played moves only,     *)
(* the searches right after a move or on a new game, by an engine whose    *)
(* depth is within MaxDepth.  The calls on the AI object alone are made    *)
(* while the history holds the played moves only; they are not calls on    *)
(* the game: call, ret and pre keep the last call on the game.             *)
(***************************************************************************)
Difficulties == {"easy", "medium", "hard", "expert"}

\* history entries of the game that no played move accounts for
stale == Len(game.moveHistory) - Len(line)

\* the engine's searches are within the depth that is run
searchable == ai.maxDepth <= MaxDepth

\* the game has just been set up or moved on
fresh == stale = 0 /\ searchable /\ call.op \in {"constructor", "makeMove"}

\* a move of a recorded game
BookMove(pitIndex) ==
    /\ stale = 0
    /\ searchable
    /\ offBook(Append(line, pitIndex)) = 0
    /\ \E r \in {makeMove(game, pitIndex)} :
        /\ r.result.success
        /\ game' = r.game
        /\ call' = [op |-> "makeMove", pitIndex |-> pitIndex]
        /\ ret' = r.result
        /\ pre' = game
        /\ sown' = r.sown
        /\ line' = Append(line, pitIndex)
        /\ UNCHANGED <<ai, ui>>

SimulateMove(pitIndex) ==
    /\ fresh
    /\ \E sim \in {simulateMove(game, pitIndex)} :
        /\ game' = sim.game
        /\ call' = [op |-> "simulateMove", pitIndex |-> pitIndex]
        /\ ret' = sim.state
        /\ pre' = game
        /\ sown' = game.board
        /\ UNCHANGED <<line, ai, ui>>

Construct(difficulty) ==
    /\ stale = 0
    /\ ai' = PallanguzhiAI(difficulty)
    /\ UNCHANGED <<game, call, ret, pre, sown, line, ui>>

SetDifficulty(difficulty) ==
    /\ stale = 0
    /\ ai' = setDifficulty(ai, difficulty)
    /\ UNCHANGED <<game, call, ret, pre, sown, line, ui>>

EvaluatePosition ==
    /\ fresh
    /\ \E e \in {evaluatePosition(game)} :
        /\ game' = e.game
        /\ call' = [op |-> "evaluatePosition"]
        /\ ret' = [value |-> e.score]
        /\ pre' = game
        /\ sown' = game.board
        /\ UNCHANGED <<line, ai, ui>>

Minimax(depth, isMaximizing) ==
    /\ fresh
    /\ \E r \in {minimax(game, depth, isMaximizing, 0 - Infinity, Infinity)} :
        /\ game' = r.game
        /\ call' = [op |-> "minimax", depth |-> depth, isMaximizing |-> isMaximizing]
        /\ ret' = [score |-> r.score, move |-> r.move, calls |-> r.calls, cut |-> r.cut]
        /\ pre' = game
        /\ sown' = game.board
        /\ UNCHANGED <<line, ai, ui>>

ChooseBestMove ==
    /\ fresh
    /\ \E r \in {chooseBestMove(ai, game)} :
        /\ game' = r.game
        /\ ai' = r.ai
        /\ call' = [op |-> "chooseBestMove"]
        /\ ret' = r.value
        /\ pre' = game
        /\ sown' = game.board
        /\ UNCHANGED <<line, ui>>

SuggestPlayerMove ==
    /\ fresh
    /\ \E r \in {suggestPlayerMove(game)} :
        /\ game' = r.game
        /\ call' = [op |-> "suggestPlayerMove"]
        /\ ret' = r.value
        /\ pre' = game
        /\ sown' = game.board
        /\ UNCHANGED <<line, ai, ui>>

\* the explanation of one of the moves that getValidMoves lists
GenerateMoveExplanation(move) ==
    /\ stale = 0
    /\ call.op \in {"constructor", "makeMove"}
    /\ \E k \in DOMAIN getValidMoves(game) : getValidMoves(game)[k] = move
    /\ \E e \in {generateMoveExplanation(ai, game, move)} :
        /\ game' = e.game
        /\ call' = [op |-> "generateMoveExplanation", pitIndex |-> move,
                    difficulty |-> ai.difficulty]
        /\ ret' = e.explanation
        /\ pre' = game
        /\ sown' = game.board
        /\ UNCHANGED <<line, ai, ui>>

\* the fork made by the search for one valid move of the game
TempGame(move) ==
    /\ fresh
    /\ isValidMove(game, move)
    /\ \E f \in {fork(game, move)} :
        /\ game' = deref(f.heap, f.game)
        /\ call' = [op |-> "tempGame", pitIndex |-> move]
        /\ ret' = f
        /\ pre' = game
        /\ sown' = game.board
        /\ UNCHANGED <<line, ai, ui>>

\* a move made on the temporary game; pre keeps the game before the fork
TempGameMove(pitIndex) ==
    /\ call.op \in {"tempGame", "tempGameMove"}
    /\ searchable
    /\ Len(ret.temp.moveHistory) < MaxTempMoves
    /\ isValidMove(deref(ret.heap, ret.temp), pitIndex)
    /\ \E f \in {forkMove(ret, pitIndex)} :
        /\ game' = deref(f.heap, f.game)
        /\ call' = [op |-> "tempGameMove", pitIndex |-> pitIndex]
        /\ ret' = f
        /\ UNCHANGED <<pre, sown, line, ai, ui>>

NextAI ==
    \/ \E pitIndex \in Pits : BookMove(pitIndex)
    \/ \E pitIndex \in PitInputs : SimulateMove(pitIndex)
    \/ \E difficulty \in Difficulties : Construct(difficulty)
    \/ \E difficulty \in Difficulties : SetDifficulty(difficulty)
    \/ EvaluatePosition
    \/ \E depth \in 0..MaxDepth, isMaximizing \in BOOLEAN :
           Minimax(depth, isMaximizing)
    \/ ChooseBestMove
    \/ SuggestPlayerMove
    \/ \E move \in Pits : GenerateMoveExplanation(move)
    \/ \E move \in Pits : TempGame(move)
    \/ \E pitIndex \in Pits : TempGameMove(pitIndex)

SpecAI == Init /\ [][NextAI]_vars

(***************************************************************************)
(* The game under the keyboard: moves of the recorded games, the           *)
(* difficulty selector and the keys.  The animation flag of the UI is      *)
(* written by the asynchronous move handlers, which are not followed here; *)
(* a key may find it either way.                                           *)
(***************************************************************************)
\* a key pressed while the animation flag of the UI has the given value
HandleKeyPress(key, animationInProgress) ==
    /\ stale = 0
    /\ \E u \in {handleKeyPress([game |-> game, line |-> line], key, animationInProgress)} :
        /\ offBook(u.line) = 0
        /\ game' = u.game
        /\ line' = u.line
        /\ call' = [op |-> "handleKeyPress", key |-> key,
                    animationInProgress |-> animationInProgress]
        /\ ret' = [returned |-> "undefined"]
        /\ pre' = game
        /\ sown' = game.board
        /\ UNCHANGED <<ai, ui>>

\* a click on a player pit, in either state of the flag
HandlePlayerMove(pitIndex, animationInProgress) ==
    /\ stale = 0
    /\ \E w \in {handlePlayerMove([game |-> game, line |-> line, ai |-> ai, move |-> null,
                                    ui |-> [ui EXCEPT !.animationInProgress =
                                                          animationInProgress]],
                                   pitIndex)} :
        /\ offBook(w.line) = 0
        /\ game' = w.game
        /\ line' = w.line
        /\ call' = [op |-> "handlePlayerMove", pitIndex |-> pitIndex,
                    animationInProgress |-> animationInProgress]
        /\ ret' = [returned |-> "undefined"]
        /\ pre' = game
        /\ sown' = game.board
        /\ UNCHANGED <<ai, ui>>

NextUI ==
    \/ \E pitIndex \in Pits : BookMove(pitIndex)
    \/ \E difficulty \in Difficulties : SetDifficulty(difficulty)
    \/ \E key \in Keys, animationInProgress \in BOOLEAN :
           HandleKeyPress(key, animationInProgress)
    \/ \E pitIndex \in 0..6, animationInProgress \in BOOLEAN :
           HandlePlayerMove(pitIndex, animationInProgress)

SpecUI == Init /\ [][NextUI]_vars

(***************************************************************************)
(* The event loop of the page: one action per turn of the loop, which is   *)
(* a user event, the callback of an executeAIMove timer, or an async call  *)
(* going on after an awaited delay.  A turn runs to completion.  Delays    *)
(* have no length here: a pending timer and a waiting call may go on at    *)
(* any turn.  The player's moves follow the recorded games of LoopLines;   *)
(* the AI's are the ones it chooses.  The hint keys are left out: the hint simulates moves on the  *)
(* game object and so lengthens moveHistory at every press.                *)
(***************************************************************************)
LoopKeys == Keys \ {"h", "H"}
\* the recorded games that open with pit 4 or with pit 6
LoopLines == {l \in Lines : l[1] \in {4, 6}}
\* s is the beginning of one of them
onLoopLine(s) == \E l \in LoopLines : Len(s) <= Len(l) /\ SubSeq(l, 1, Len(s)) = s
LoopDifficulties == {"easy", "medium"}

\* what the handlers of a turn start from
world == [game |-> game, line |-> line, ai |-> ai, ui |-> ui, move |-> null]

\* the turn c has left w; a turn that leaves every object as it was is a
\* stuttering step.  pre is the game the turn called makeMove on (as the
\* turn found it); for a turn without makeMove it is the game the turn left
Turn(c, w) ==
    /\ w # world
    /\ Len(w.ui.tasks) <= MaxTasks
    /\ w.ui.timers <= MaxTimers
    /\ game' = w.game
    /\ line' = w.line
    /\ ai' = w.ai
    /\ ui' = w.ui
    /\ call' = c
    /\ ret' = [move |-> w.move]
    /\ pre' = IF w.move # null THEN game ELSE w.game
    /\ sown' = IF w.move # null THEN game.board ELSE w.game.board

ClickPit(pitIndex) ==
    \E w \in {handlePlayerMove(world, pitIndex)} :
        /\ w.move # null => onLoopLine(w.line)
        /\ Turn([op |-> "handlePlayerMove", pitIndex |-> pitIndex,
                 animationInProgress |-> ui.animationInProgress], w)

KeyDown(key) ==
    \E w \in {keydown(world, key)} :
        /\ w.move # null => onLoopLine(w.line)
        /\ Turn([op |-> "handleKeyPress", key |-> key,
                 animationInProgress |-> ui.animationInProgress], w)

ClickNewGame ==
    \E w \in {newGameClick(world)} :
        Turn([op |-> "startNewGame"], w)

\* the change of the difficulty select is no call on the game
ChangeDifficulty(difficulty) ==
    /\ ai' = difficultyChange(world, difficulty).ai
    /\ UNCHANGED <<game, call, ret, pre, sown, line, ui>>

\* the callback of a pending timer
Timeout ==
    /\ ui.timers > 0
    /\ Turn([op |-> "executeAIMove", at |-> "start"], executeAIMove_start(world))

\* the async call ui.tasks[k] goes on
Resume(k) ==
    /\ k \in DOMAIN ui.tasks
    /\ (ui.tasks[k].fn = "executeAIMove" /\ ui.tasks[k].at = "delay") => searchable
    /\ \E w \in {resume(world, k)} :
        Turn([op |-> ui.tasks[k].fn, at |-> ui.tasks[k].at], w)

NextLoop ==
    \/ \E pitIndex \in 0..6 : ClickPit(pitIndex)
    \/ \E key \in LoopKeys : KeyDown(key)
    \/ ClickNewGame
    \/ \E difficulty \in LoopDifficulties : ChangeDifficulty(difficulty)
    \/ Timeout
    \/ \E k \in 1..MaxTasks : Resume(k)

SpecLoop == Init /\ [][NextLoop]_vars

(***************************************************************************)
(* Vocabulary of the properties: the last call, read off the variables     *)
(***************************************************************************)
madeMove == call.op = "makeMove" /\ ret.success
startPit == call.pitIndex
mover == pre.currentPlayer
\* where n stones taken from startPit end on the circle of NumPits pits
landingPit == (startPit + pre.board[startPit]) % NumPits
\* the entry the call pushed on moveHistory: board and scores as they stood
\* after checkCapture and before checkGameEnd
record == game.moveHistory[Len(game.moveHistory)]
afterCapture == record.boardState
sideOf(pit) == IF pit \in 0..6 THEN "player" ELSE "ai"
rangeOf(side) == IF side = "player" THEN 0..6 ELSE 7..13
scoreOf(g, side) == IF side = "player" THEN g.playerScore ELSE g.aiScore
recordedScore(side) == IF side = "player" THEN record.scores.player ELSE record.scores.ai
neighbours(pit) == {(pit + NumPits - 1) % NumPits, (pit + 1) % NumPits}

RECURSIVE total(_, _)
total(board, S) ==
    IF S = {} THEN 0
    ELSE LET q == CHOOSE x \in S : TRUE
         IN  board[q] + total(board, S \ {q})

sideEmpty(board, side) == \A q \in rangeOf(side) : board[q] = 0

\* the rule of the specification for a legal move
legal(g, pit) ==
    /\ ~g.gameOver
    /\ pit \in rangeOf(g.currentPlayer)
    /\ g.board[pit] >= 1

\* the capture trigger and the neighbours a capture takes
captureTriggered == sideOf(landingPit) # mover /\ sown[landingPit] = 1
taken == {q \in neighbours(landingPit) : sown[q] > 0}

(***************************************************************************)
(* C1  Stone conservation: in every reachable state the 14 pits and the    *)
(* two scores hold 96 stones together, the state after the game has ended  *)
(* included.                                                               *)
(***************************************************************************)
C1_Conservation ==
    total(game.board, Pits) + game.playerScore + game.aiScore = TotalStones

(***************************************************************************)
(* C2  Legality gating: makeMove on a pit for which isValidMove is false   *)
(* returns success = false and leaves every field of the game (board,      *)
(* scores, currentPlayer, gameOver, winner, moveHistory) as it was.        *)
(***************************************************************************)
C2_LegalityGating ==
    (call.op = "makeMove" /\ ~isValidMove(pre, call.pitIndex))
        => (ret.success = FALSE /\ game = pre)

\* a refused move from a pit that holds stones, on the other side's turn
C2_Witness ==
    /\ call.op = "makeMove"
    /\ ret.success = FALSE
    /\ ~pre.gameOver
    /\ Len(pre.moveHistory) > 0
    /\ call.pitIndex \in Pits
    /\ pre.board[call.pitIndex] > 0
    /\ sideOf(call.pitIndex) # pre.currentPlayer

(***************************************************************************)
(* C3  isValidMove(pit) is true exactly when the game is not over, the pit *)
(* is in the range of the side to move and holds at least one stone; it    *)
(* is false for every other input, and the call changes nothing.           *)
(***************************************************************************)
C3_IsValidMoveIff ==
    /\ \A pit \in PitInputs : isValidMove(game, pit) <=> legal(game, pit)
    /\ call.op = "isValidMove"
          => /\ ret.value <=> legal(pre, call.pitIndex)
             /\ game = pre

\* a query for a pit with stones of the side that is not to move
C3_Witness ==
    /\ call.op = "isValidMove"
    /\ ret.value = FALSE
    /\ ~pre.gameOver
    /\ call.pitIndex \in Pits
    /\ pre.board[call.pitIndex] > 0

(***************************************************************************)
(* C4  Sowing: a successful makeMove on a pit of n stones empties it and   *)
(* adds one stone to each of the n next pits in circular order (13 is      *)
(* followed by 0), through the start pit again when n >= 14; no other pit  *)
(* changes before the capture.                                             *)
(***************************************************************************)
C4_Sowing ==
    madeMove =>
        LET n == pre.board[startPit]
        IN  \A q \in Pits :
                sown[q] = (IF q = startPit THEN 0 ELSE pre.board[q])
                          + Cardinality({k \in 1..n : (startPit + k) % NumPits = q})

\* a move that goes all the way round and sows into its own start pit
C4_Witness ==
    /\ madeMove
    /\ pre.board[startPit] >= NumPits
    /\ sown[startPit] >= 1

C7_BonusTurn ==
    madeMove =>
        LET evenOwn == /\ sideOf(landingPit) = mover
                       /\ game.board[landingPit] > 0
                       /\ game.board[landingPit] % 2 = 0
        IN  /\ (game.currentPlayer = mover) <=> evenOwn
            /\ ret.bonusTurn <=> evenOwn
            /\ game.currentPlayer \in {"player", "ai"}

\* a move that earned a bonus turn
C7_Witness ==
    /\ madeMove
    /\ ret.bonusTurn
    /\ game.currentPlayer = mover
    /\ sideOf(landingPit) = mover

(***************************************************************************)
(* C8  Terminal detection and winner: after a successful makeMove gameOver *)
(* is true exactly when pits 0-6 or pits 7-13 are all empty after sowing   *)
(* and capture; winner is null exactly while gameOver is false, and once   *)
(* gameOver is true winner is the side with the higher score, or tie.      *)
(***************************************************************************)
C8_TerminalAndWinner ==
    /\ madeMove =>
          (game.gameOver <=> (sideEmpty(afterCapture, "player")
                              \/ sideEmpty(afterCapture, "ai")))
    /\ (game.winner = "null") <=> ~game.gameOver
    /\ game.gameOver =>
          game.winner = (IF game.playerScore > game.aiScore THEN "player"
                         ELSE IF game.aiScore > game.playerScore THEN "ai"
                         ELSE "tie")

\* a game that a move has just ended in a tie
C8_Witness ==
    /\ madeMove
    /\ game.gameOver
    /\ game.winner = "tie"

(***************************************************************************)
(* C9  End-of-game sweep: when a move ends the game the stones left in     *)
(* pits 0-6 are added to playerScore, those left in pits 7-13 to aiScore,  *)
(* and afterwards all 14 pits hold zero.                                   *)
(***************************************************************************)
C9_EndSweep ==
    (madeMove /\ game.gameOver) =>
        /\ game.playerScore = record.scores.player + total(afterCapture, 0..6)
        /\ game.aiScore = record.scores.ai + total(afterCapture, 7..13)
        /\ \A q \in Pits : game.board[q] = 0

(***************************************************************************)
(* C10  getValidMoves returns, in ascending order, exactly the pits of the *)
(* current side's range that hold stones, and the list is not empty in any *)
(* reachable state where gameOver is false.                                *)
(***************************************************************************)
C10_ValidMoves ==
    LET moves == getValidMoves(game)
    IN  /\ \A i \in 1..(Len(moves) - 1) : moves[i] < moves[i + 1]
        /\ {moves[i] : i \in 1..Len(moves)}
              = {q \in rangeOf(game.currentPlayer) : game.board[q] > 0}
        /\ ~game.gameOver => Len(moves) > 0
        /\ call.op = "getValidMoves" => (ret.value = moves /\ game = pre)

\* the list asked for in a running game where some own pit is empty
C10_Witness ==
    /\ call.op = "getValidMoves"
    /\ ~game.gameOver
    /\ Len(ret.value) >= 1
    /\ Len(ret.value) < 7

(***************************************************************************)
(* C11  Initial state and reset: a new game, and initializeGame() called   *)
(* in any state, gives 6 stones in every pit except 12 in pits 3 and 10    *)
(* (96 in all), both scores 0, currentPlayer 'player', gameOver false,     *)
(* winner null and an empty moveHistory.                                   *)
(***************************************************************************)
C11_InitialState ==
    call.op \in {"constructor", "initializeGame"} =>
        /\ \A q \in Pits : game.board[q] = (IF q \in {3, 10} THEN 12 ELSE 6)
        /\ DOMAIN game.board = 0..13
        /\ total(game.board, Pits) = 96
        /\ game.playerScore = 0
        /\ game.aiScore = 0
        /\ game.currentPlayer = "player"
        /\ game.gameOver = FALSE
        /\ game.winner = "null"
        /\ game.moveHistory = <<>>

\* a reset of a finished game with moves in its history
C11_Witness ==
    /\ call.op = "initializeGame"
    /\ pre.gameOver
    /\ pre.winner = "ai"
    /\ Len(pre.moveHistory) > 0


(***************************************************************************)
(* Vocabulary of the properties on the decision engine                     *)
(***************************************************************************)
\* the six fields that the rules read and write
ruleState(g) ==
    [ board         |-> g.board,
      playerScore   |-> g.playerScore,
      aiScore       |-> g.aiScore,
      currentPlayer |-> g.currentPlayer,
      gameOver      |-> g.gameOver,
      winner        |-> g.winner ]

searchOps == {"chooseBestMove", "suggestPlayerMove", "evaluatePosition", "simulateMove"}

(***************************************************************************)
(* C12: after chooseBestMove, suggestPlayerMove, evaluatePosition or       *)
(* simulateMove returns, every field of the game passed in (the six rule   *)
(* fields and the moveHistory list) is identical to its value before the   *)
(* call.                                                                   *)
(***************************************************************************)
C12_NoMutation ==
    call.op \in searchOps =>
        /\ ruleState(game) = ruleState(pre)
        /\ game.moveHistory = pre.moveHistory

(***************************************************************************)
(* C13: after simulateMove(pit), for every pit argument, the board, the    *)
(* two scores, currentPlayer, gameOver and winner equal their values       *)
(* before the call, and the returned snapshot is the state and the result  *)
(* that makeMove(pit) produces from the state before the call.             *)
(***************************************************************************)
C13_SimulateExact ==
    call.op = "simulateMove" =>
        /\ ruleState(game) = ruleState(pre)
        /\ ruleState(ret) = ruleState(makeMove(pre, call.pitIndex).game)
        /\ ret.moveResult = makeMove(pre, call.pitIndex).result

\* a simulated move that would end the game, on a game that goes on
C13_Witness ==
    /\ call.op = "simulateMove"
    /\ ret.moveResult.success
    /\ ret.gameOver
    /\ ret.winner # "null"
    /\ ~game.gameOver
    /\ ret.board # game.board

(***************************************************************************)
(* C14: the temporary game that the search builds from a simulated         *)
(* snapshot shares no rule state with the game it came from: whatever      *)
(* moves are made on the temporary game, the board, the scores,            *)
(* currentPlayer, gameOver and winner of the original game stay as they    *)
(* were before the fork.                                                   *)
(***************************************************************************)
C14_ForkIsolation ==
    call.op \in {"tempGame", "tempGameMove"} =>
        /\ ruleState(game) = ruleState(pre)
        /\ ret.temp.board # ret.game.board

\* two moves made on the temporary game changed its board and its turn
C14_Witness ==
    /\ call.op = "tempGameMove"
    /\ Len(ret.temp.moveHistory) = 2
    /\ ret.heap[ret.temp.board] # game.board
    /\ ret.heap[ret.temp.board] # pre.board
    /\ ret.temp.playerScore + ret.temp.aiScore > pre.playerScore + pre.aiScore

(***************************************************************************)
(* C15: in every recursive call that minimax makes on an unfinished        *)
(* position, the role of the child is the role of the side that moves next *)
(* there: the role of the parent again when the parent's side moves again  *)
(* (a bonus turn), the other role when the turn has passed.                *)
(***************************************************************************)
C15_RoleFollowsTurn ==
    call.op = "minimax" =>
        \A c \in ret.calls :
            ~c.gameOver =>
                ((c.isMaximizing = c.parentIsMaximizing) <=> (c.toMove = c.parentToMove))

(***************************************************************************)
(* The minimax of the engine with the pruning break removed: every valid   *)
(* move of every node is searched, in the same order, with the same        *)
(* comparisons and the same roles.  The loop state s holds validMoves,     *)
(* the best score and the best move.                                       *)
(***************************************************************************)
exhaustiveStart(g, isMaximizing) ==
    [ validMoves |-> getValidMoves(g),
      best       |-> IF isMaximizing THEN 0 - Infinity ELSE Infinity,
      bestMove   |-> null ]

exhaustiveUpdate(isMaximizing, s, move, score) ==
    IF (isMaximizing /\ score > s.best) \/ (~isMaximizing /\ score < s.best)
    THEN [s EXCEPT !.best = score, !.bestMove = move]
    ELSE s

RECURSIVE exhaustive(_, _, _)

exhaustiveMove(s, g, move, depth, isMaximizing) ==
    exhaustiveUpdate(isMaximizing, s, move,
                     exhaustive(tempGame(simulateMove(g, move).state),
                                depth - 1, ~isMaximizing).score)

RECURSIVE exhaustiveMoves(_, _, _, _, _)
exhaustiveMoves(s, g, k, depth, isMaximizing) ==
    IF k > Len(s.validMoves)
    THEN s
    ELSE exhaustiveMoves(exhaustiveMove(s, g, s.validMoves[k], depth, isMaximizing),
                         g, k + 1, depth, isMaximizing)

exhaustiveReturn(s) == [score |-> s.best, move |-> s.bestMove]

exhaustive(g, depth, isMaximizing) ==
    IF depth = 0 \/ g.gameOver
    THEN [score |-> evaluatePosition(g).score, move |-> null]
    ELSE exhaustiveReturn(exhaustiveMoves(exhaustiveStart(g, isMaximizing),
                                          g, 1, depth, isMaximizing))

(***************************************************************************)
(* C16: for every position and every depth, the move and the score that    *)
(* minimax returns from the window (-Infinity, Infinity) are the move and  *)
(* the score of the same minimax without the pruning break.                *)
(***************************************************************************)
C16_PruningEquivalence ==
    call.op = "minimax" =>
        /\ ret.score = exhaustive(pre, call.depth, call.isMaximizing).score
        /\ ret.move = exhaustive(pre, call.depth, call.isMaximizing).move

\* a search in which a break left moves unsearched
C16_Witness ==
    /\ call.op = "minimax"
    /\ call.depth = MaxDepth
    /\ ret.cut
    /\ ret.move # null
    /\ ~pre.gameOver

(***************************************************************************)
(* C17: when the side to move has two or more legal moves in an unfinished *)
(* game, chooseBestMove returns a legal move whose searched value is the   *)
(* highest, and among the moves of that value the one with the lowest pit  *)
(* index.  The searched value of a move is the value of the position after *)
(* it, searched to the remaining depth without pruning.                    *)
(***************************************************************************)
searchedValue(g, move, depth) ==
    exhaustive(tempGame(simulateMove(g, move).state), depth - 1, FALSE).score

legalMoves(g) == {pit \in Pits : legal(g, pit)}

C17_BestMoveTieBreak ==
    (call.op = "chooseBestMove" /\ ~pre.gameOver /\ Cardinality(legalMoves(pre)) >= 2) =>
        /\ ret.move \in legalMoves(pre)
        /\ \A m \in legalMoves(pre) :
               /\ searchedValue(pre, m, ai.maxDepth) <= searchedValue(pre, ret.move, ai.maxDepth)
               /\ m < ret.move =>
                      searchedValue(pre, m, ai.maxDepth) < searchedValue(pre, ret.move, ai.maxDepth)

\* a later move has the value of the move returned
C17_Witness ==
    /\ call.op = "chooseBestMove"
    /\ ~pre.gameOver
    /\ Cardinality(legalMoves(pre)) >= 2
    /\ \E m \in legalMoves(pre) :
           /\ m > ret.move
           /\ searchedValue(pre, m, ai.maxDepth) = searchedValue(pre, ret.move, ai.maxDepth)

(***************************************************************************)
(* C18: chooseBestMove returns move = null when the side to move has no    *)
(* pit with stones; when exactly one pit of the side to move holds stones  *)
(* it returns that pit with the forced-move explanation and without        *)
(* running the search, so without any simulated move on the game.          *)
(***************************************************************************)
pitsWithStones(g) == {pit \in rangeOf(g.currentPlayer) : g.board[pit] > 0}

C18_DegenerateChoices ==
    call.op = "chooseBestMove" =>
        /\ pitsWithStones(pre) = {} => (ret.move = null /\ game = pre)
        /\ Cardinality(pitsWithStones(pre)) = 1 =>
               /\ ret.move \in pitsWithStones(pre)
               /\ ret.explanation.kind = "Only one move available"
               /\ game = pre

\* the only pit with stones is returned on a game that goes on
C18_Witness ==
    /\ call.op = "chooseBestMove"
    /\ ~pre.gameOver
    /\ Cardinality(pitsWithStones(pre)) = 1
    /\ ret.move \in pitsWithStones(pre)
    /\ Cardinality({pit \in Pits : pre.board[pit] > 0}) > 1

(***************************************************************************)
(* C19: the search depth is 2 for 'easy', 4 for 'medium', 6 for 'hard' and *)
(* 4 for any other difficulty, after the construction and after every      *)
(* setDifficulty call.                                                     *)
(***************************************************************************)
C19_DifficultyDepth ==
    /\ ai.difficulty \in Difficulties
    /\ ai.difficulty = "easy" => ai.maxDepth = 2
    /\ ai.difficulty = "medium" => ai.maxDepth = 4
    /\ ai.difficulty = "hard" => ai.maxDepth = 6
    /\ ai.difficulty \notin {"easy", "medium", "hard"} => ai.maxDepth = 4

\* an unknown difficulty set on an engine that has explained a move
C19_Witness ==
    /\ ai.difficulty = "expert"
    /\ ai.maxDepth = 4
    /\ ai.lastExplanation.kind # ""

(***************************************************************************)
(* C20: evaluatePosition returns 1000 when the game is over and the AI is  *)
(* the winner, -1000 when the player is the winner and 0 on a tie, and for *)
(* every unfinished position whose stones total 96 the value lies strictly *)
(* between -1000 and 1000.                                                 *)
(***************************************************************************)
C20_TerminalDominates ==
    call.op = "evaluatePosition" =>
        /\ (pre.gameOver /\ pre.winner = "ai") => ret.value = 1000
        /\ (pre.gameOver /\ pre.winner = "player") => ret.value = 0 - 1000
        /\ (pre.gameOver /\ pre.winner = "tie") => ret.value = 0
        /\ (~pre.gameOver /\ total(pre.board, Pits) + pre.playerScore + pre.aiScore = TotalStones) =>
               (ret.value > 0 - 1000 /\ ret.value < 1000)

(***************************************************************************)
(* Vocabulary of the evaluation: the terms as the properties state them    *)
(***************************************************************************)
nonEmpty(board, side) == {pit \in rangeOf(side) : board[pit] > 0}
emptyPits(board, side) == {pit \in rangeOf(side) : board[pit] = 0}

\* the evaluation without the capture-opportunity term
staticValue(g) ==
    10 * (g.aiScore - g.playerScore)
    + 2 * (total(g.board, rangeOf("ai")) - total(g.board, rangeOf("player")))
    + 5 * (Cardinality(nonEmpty(g.board, "ai")) - Cardinality(nonEmpty(g.board, "player")))
    + 2 * g.board[10] - 2 * g.board[3]
    + (g.board[7] + g.board[13]) - (g.board[0] + g.board[6])
    - 3 * Cardinality(emptyPits(g.board, "ai"))
    + 3 * Cardinality(emptyPits(g.board, "player"))

\* the stones that the move of the given side from pit would capture
capturesOf(g, side, pit) ==
    capturedBy(makeMove([g EXCEPT !.currentPlayer = side], pit).result)

RECURSIVE sumCaptures(_, _, _)
sumCaptures(g, side, S) ==
    IF S = {} THEN 0
    ELSE LET pit == CHOOSE x \in S : TRUE
         IN  capturesOf(g, side, pit) + sumCaptures(g, side, S \ {pit})

(***************************************************************************)
(* C21: in an unfinished position the capture-opportunity term of the      *)
(* evaluation is 15 times the stones captured by each legal move of the AI *)
(* side, summed over those moves, whichever side is to move; the moves of  *)
(* the player's side contribute nothing.                                   *)
(***************************************************************************)
C21_CaptureTermOfAI ==
    (call.op = "evaluatePosition" /\ ~pre.gameOver) =>
        ret.value - staticValue(pre) = 15 * sumCaptures(pre, "ai", nonEmpty(pre.board, "ai"))

(***************************************************************************)
(* C24: the evaluation of an unfinished position, apart from the           *)
(* capture-opportunity term, is 10*(aiScore - playerScore) + 2*(stones on  *)
(* 7-13 - stones on 0-6) + 5*(non-empty AI pits - non-empty player pits)   *)
(* + 2*board[10] - 2*board[3] + board[7] + board[13] - board[0] - board[6] *)
(* - 3*(empty AI pits) + 3*(empty player pits), and computing it leaves    *)
(* currentPlayer of the evaluated game as it was.                          *)
(***************************************************************************)
C24_StaticEvaluation ==
    (call.op = "evaluatePosition" /\ ~pre.gameOver) =>
        /\ ret.value - evaluateCaptureOpportunities(pre).score = staticValue(pre)
        /\ game.currentPlayer = pre.currentPlayer

\* an evaluation with scores that differ and empty pits on both sides
C24_Witness ==
    /\ call.op = "evaluatePosition"
    /\ ~pre.gameOver
    /\ pre.aiScore # pre.playerScore
    /\ emptyPits(pre.board, "ai") # {}
    /\ emptyPits(pre.board, "player") # {}
    /\ pre.currentPlayer = "ai"
    /\ ret.value # 0

(***************************************************************************)
(* The evaluation taken from the player's own perspective: the terminal    *)
(* values and every term of the sum with the two sides exchanged, the      *)
(* capture-opportunity term being that of the moves of the player's side.  *)
(***************************************************************************)
playerValue(g) ==
    IF g.gameOver
    THEN (IF g.winner = "player" THEN 1000 ELSE IF g.winner = "ai" THEN 0 - 1000 ELSE 0)
    ELSE (0 - staticValue(g))
         + 15 * sumCaptures(g, "player", nonEmpty(g.board, "player"))

\* the score of the hint for the player's move from pit
hintValue(g, pit) == playerValue(makeMove(g, pit).game)

(***************************************************************************)
(* C22: on the player's turn suggestPlayerMove scores the position after   *)
(* each legal move of the player with the evaluation from the player's own *)
(* perspective, one ply deep, and returns the move of the highest score,   *)
(* the lowest pit index among equal scores; when it is not the player's    *)
(* turn it returns move = null.                                            *)
(***************************************************************************)
C22_HintChoice ==
    call.op = "suggestPlayerMove" =>
        /\ pre.currentPlayer # "player" => ret.move = null
        /\ (pre.currentPlayer = "player" /\ legalMoves(pre) # {}) =>
               /\ ret.move \in legalMoves(pre)
               /\ \A m \in legalMoves(pre) :
                      /\ hintValue(pre, m) <= hintValue(pre, ret.move)
                      /\ m < ret.move => hintValue(pre, m) < hintValue(pre, ret.move)

(***************************************************************************)
(* C23: whenever the key N is pressed the game is reset to the initial     *)
(* state, whatever the turn, the animation flag and the game-over status.  *)
(***************************************************************************)
C23_KeyboardNewGame ==
    (call.op = "handleKeyPress" /\ toLowerCase(call.key) = "n") =>
        (game = initializeGame /\ line = <<>>)

(***************************************************************************)
(* C25: for the difficulties 'medium' and 'hard' the explanation of a move *)
(* holds one strategic remark, the first that matches of: (a) the          *)
(* AI-minus-player score difference after the move exceeds the one before  *)
(* it by more than 5, (b) the pit is 10, (c) the pit is 7 or 13, (d) after *)
(* the move the stones on pits 7-13 exceed those on pits 0-6 by more than  *)
(* 10, (e) the generic remark; for 'easy' no remark is appended.           *)
(***************************************************************************)
scoreSwing(before, after) ==
    (after.aiScore - after.playerScore) - (before.aiScore - before.playerScore)

remark(before, pit, after) ==
    CASE scoreSwing(before, after) > 5 ->
             "This move significantly improves AI's position. "
      [] scoreSwing(before, after) <= 5 /\ pit = 10 ->
             "Playing from the middle pit provides maximum distribution options. "
      [] scoreSwing(before, after) <= 5 /\ pit \in {7, 13} ->
             "Corner pit moves can create capture opportunities. "
      [] /\ scoreSwing(before, after) <= 5
         /\ pit \notin {7, 10, 13}
         /\ total(after.board, rangeOf("ai")) - total(after.board, rangeOf("player")) > 10 ->
             "This maintains AI's stone advantage on the board. "
      [] OTHER -> "This move maintains good strategic position. "

C25_StrategicRemark ==
    call.op = "generateMoveExplanation" =>
        /\ call.difficulty \in {"medium", "hard"} =>
               ret.reason = remark(pre, call.pitIndex, makeMove(pre, call.pitIndex).game)
        /\ call.difficulty = "easy" => ret.reason = ""

\* a move from a corner pit whose score swing comes first
C25_Witness ==
    /\ call.op = "generateMoveExplanation"
    /\ call.difficulty \in {"medium", "hard"}
    /\ call.pitIndex \in {7, 13}
    /\ ret.captured > 5
    /\ ret.reason = "This move significantly improves AI's position. "

\* the stones listed in a sequence of {pit, stones} entries
RECURSIVE listedStones(_, _)
listedStones(captures, k) ==
    IF k > Len(captures) THEN 0
    ELSE captures[k].stones + listedStones(captures, k + 1)

\* what C26 says of one move record, for a move from startPit with n stones
wellFormedRecord(moveDetails, n) ==
    /\ Len(moveDetails.path) = n + 1
    /\ moveDetails.path[1] = startPit
    /\ \A i \in 2..Len(moveDetails.path) :
          moveDetails.path[i] = (moveDetails.path[i - 1] + 1) % NumPits
    /\ moveDetails.path[Len(moveDetails.path)] = landingPit
    /\ listedStones(moveDetails.captures, 1) = ret.captured
    /\ moveDetails.bonusTurn = ret.bonusTurn

(***************************************************************************)
(* C26  Move record: after a successful makeMove on a pit of n stones the  *)
(* path of the record has n + 1 entries, starts with the start pit, goes   *)
(* on from each pit to its circular successor and ends in the landing      *)
(* pit; the stones listed in captures add up to result.captured; the       *)
(* record's bonusTurn is the bonusTurn of the result.  The record is the   *)
(* one returned and the one pushed on moveHistory.                         *)
(***************************************************************************)
C26_MoveRecord ==
    madeMove =>
        /\ wellFormedRecord(ret.moveDetails, pre.board[startPit])
        /\ record.move = ret.moveDetails

\* a capture of both neighbours by a move that passed from pit 13 to pit 0
C26_Witness ==
    /\ madeMove
    /\ Len(ret.moveDetails.captures) = 3
    /\ ret.captured > 3
    /\ \E i \in 2..Len(ret.moveDetails.path) :
          ret.moveDetails.path[i] = 0 /\ ret.moveDetails.path[i - 1] = 13


(***************************************************************************)
(* C27  History attribution: a successful makeMove appends exactly one     *)
(* entry to moveHistory, and the player field of that entry is the side    *)
(* that made the move, also when the move earned a bonus turn.             *)
(***************************************************************************)
C27_HistoryAttribution ==
    madeMove =>
        /\ Len(game.moveHistory) = Len(pre.moveHistory) + 1
        /\ \A k \in DOMAIN pre.moveHistory : game.moveHistory[k] = pre.moveHistory[k]
        /\ record.player = mover


(***************************************************************************)
(* C28  Finished is absorbing: from a state with gameOver true, every      *)
(* call other than initializeGame leaves board, scores, currentPlayer,     *)
(* gameOver and winner as they are, and every makeMove, on every pit,      *)
(* fails (pre' = game: the step is a call made on the finished game).      *)
(***************************************************************************)
C28_FinishedAbsorbing ==
    [][(game.gameOver /\ call'.op # "initializeGame") =>
          /\ ruleState(game') = ruleState(game)
          /\ (call'.op = "makeMove" /\ pre' = game) => ~ret'.success]_vars

\* a finished game refused a pit of the side to move that holds stones
C28_Witness ==
    /\ call.op = "makeMove"
    /\ pre.gameOver
    /\ ~ret.success
    /\ call.pitIndex \in rangeOf(pre.currentPlayer)
    /\ pre.board[call.pitIndex] > 0


(***************************************************************************)
(* C29  Returned moves are legal: in every state of a game, finished or    *)
(* not, a move other than null returned by chooseBestMove or by           *)
(* suggestPlayerMove is a pit for which isValidMove is true in that state, *)
(* so that makeMove of it succeeds.                                        *)
(***************************************************************************)
C29_ReturnedMovesLegal ==
    (call.op \in {"chooseBestMove", "suggestPlayerMove"} /\ ret.move # null) =>
        /\ isValidMove(pre, ret.move)
        /\ makeMove(pre, ret.move).result.success


\* the pits in a list of moves
listed(moves) == {moves[k] : k \in DOMAIN moves}

(***************************************************************************)
(* C30  getValidMoves agrees with isValidMove: in every reachable state,   *)
(* finished states included, a pit is in the list that getValidMoves       *)
(* returns, and in validMoves of getGameState, exactly when isValidMove    *)
(* of that pit is true.                                                    *)
(***************************************************************************)
C30_ValidMovesAgree ==
    /\ call.op = "getValidMoves" =>
          \A pit \in Pits : pit \in listed(ret.value) <=> isValidMove(pre, pit)
    /\ \A pit \in Pits :
          pit \in listed(getGameState(game).validMoves) <=> isValidMove(game, pit)


(***************************************************************************)
(* C35  Capture and bonus turn exclude each other: no successful makeMove  *)
(* has result.captured > 0 together with a bonus turn, and after a         *)
(* capturing move the turn is the opponent's.                              *)
(***************************************************************************)
C35_CaptureExcludesBonus ==
    (madeMove /\ ret.captured > 0) =>
        /\ ~ret.bonusTurn
        /\ ~ret.moveDetails.bonusTurn
        /\ game.currentPlayer = otherPlayer(mover)

\* both sides have captured: here the AI, with the player to move next
C35_Witness ==
    /\ madeMove
    /\ ret.captured > 0
    /\ mover = "ai"
    /\ pre.playerScore > 0
    /\ game.currentPlayer = "player"


(***************************************************************************)
(* C36  Scores never decrease: after a successful makeMove playerScore     *)
(* and aiScore are each at least what they were before it; the score of    *)
(* the side that did not move is unchanged when the history entry is       *)
(* written (before checkGameEnd), and unchanged after the call unless the  *)
(* move ended the game.                                                    *)
(***************************************************************************)
C36_ScoresNeverDecrease ==
    madeMove =>
        /\ game.playerScore >= pre.playerScore
        /\ game.aiScore >= pre.aiScore
        /\ recordedScore(otherPlayer(mover)) = scoreOf(pre, otherPlayer(mover))
        /\ recordedScore(mover) = scoreOf(pre, mover) + ret.captured
        /\ ~game.gameOver =>
              /\ scoreOf(game, otherPlayer(mover)) = scoreOf(pre, otherPlayer(mover))
              /\ scoreOf(game, mover) = scoreOf(pre, mover) + ret.captured

\* a capturing move that ends the game: the capture raises the mover's
\* score and the sweep raises the score of the other side
C36_Witness ==
    /\ madeMove
    /\ ret.captured > 0
    /\ game.gameOver
    /\ scoreOf(game, mover) > scoreOf(pre, mover)
    /\ scoreOf(game, otherPlayer(mover)) > scoreOf(pre, otherPlayer(mover))


\* the turn in which executeAIMove, its thinking delay over, applied a move
aiMoved == call.op = "executeAIMove" /\ call.at = "delay" /\ ret.move # null

(***************************************************************************)
(* C31  The AI only plays its own pits: under every interleaving of        *)
(* clicks, key presses, New Game clicks, difficulty changes, timers and    *)
(* awaited delays, every move that executeAIMove applies to the game is    *)
(* from a pit in 7..13 and is applied when currentPlayer is 'ai'.          *)
(***************************************************************************)
C31_AIPlaysOwnPits ==
    aiMoved => (ret.move \in 7..13 /\ pre.currentPlayer = "ai")


(***************************************************************************)
(* C32  One move in flight: under every interleaving of UI events, timers  *)
(* and awaited delays, at most one call of executePlayerMove or            *)
(* executeAIMove is between its start and its end, and animationInProgress *)
(* is true as long as one is.                                              *)
(***************************************************************************)
C32_OneMoveInFlight ==
    /\ Len(ui.tasks) <= 1
    /\ ui.tasks # <<>> => ui.animationInProgress


\* an executeAIMove is pending (a timer is set) or running
aiScheduled ==
    \/ ui.timers > 0
    \/ \E k \in DOMAIN ui.tasks : ui.tasks[k].fn = "executeAIMove"

(***************************************************************************)
(* C33  The AI always answers: under every interleaving of UI events,      *)
(* whenever the game is unfinished, currentPlayer is 'ai' and no move is   *)
(* being processed (no call of executePlayerMove or executeAIMove is in    *)
(* flight), an executeAIMove is pending or running: the UI never rests in  *)
(* an unfinished state where it is the AI's turn and nothing is scheduled. *)
(***************************************************************************)
C33_AIAlwaysAnswers ==
    (~game.gameOver /\ game.currentPlayer = "ai" /\ ui.tasks = <<>>) => aiScheduled


\* a click on a player pit or a number key, and the pit it chooses
playerInput ==
    \/ call.op = "handlePlayerMove"
    \/ call.op = "handleKeyPress" /\ keyPit(call.key) # null
chosenPit == IF call.op = "handlePlayerMove" THEN call.pitIndex ELSE keyPit(call.key)

(***************************************************************************)
(* C34  Player input gating: a click on a player pit or a number key 1-7   *)
(* applies a move only if, at that moment, animationInProgress is false,   *)
(* the game is not over, currentPlayer is 'player' and the chosen pit is   *)
(* in 0..6 with at least one stone, and the move is makeMove of that pit;  *)
(* in every other case the game is left unchanged.                         *)
(***************************************************************************)
C34_PlayerInputGating ==
    playerInput =>
        \/ game = pre
        \/ /\ ~call.animationInProgress
           /\ ~pre.gameOver
           /\ pre.currentPlayer = "player"
           /\ chosenPit \in 0..6
           /\ pre.board[chosenPit] >= 1
           /\ game = makeMove(pre, chosenPit).game

\* a number key has applied a move in the course of a game
C34_Witness ==
    /\ call.op = "handleKeyPress"
    /\ keyPit(call.key) # null
    /\ game # pre
    /\ Len(line) >= 3
    /\ line[Len(line)] = chosenPit

====
